---------------------------- MODULE Spec2Model ----------------------------
(***************************************************************************)
(* Model of the task-list CLI (cli_task_manager.py) and of the resource    *)
(* demo (idempotent_function.py).                                          *)
(*                                                                         *)
(*   Spec       sequential invocations of the CLI, each one atomic,        *)
(*              starting with no tasks.json                                *)
(*   SpecExt    Spec plus an environment that may replace or delete        *)
(*              tasks.json between invocations                             *)
(*   SpecSteps  two concurrent invocations; the load and every save of an  *)
(*              invocation are separate steps                              *)
(*   SpecRes    the Resource functions of idempotent_function.py           *)
(***************************************************************************)
EXTENDS Integers, Sequences, FiniteSets, TLC

VARIABLES
    file,       \* content of tasks.json
    pre,        \* content of tasks.json when the last invocation began
    inv,        \* argparse namespace of the last invocation
    out,        \* what the last invocation printed
    writes,     \* save_tasks calls made by the last invocation
    pc,         \* SpecSteps: position of each process
    pargs,      \* SpecSteps: argparse namespace of each process
    base,       \* SpecSteps: (tasks, next_id) as returned by load_tasks
    mem,        \* SpecSteps: (tasks, next_id) in memory after the handler ran
    pending,    \* SpecSteps: save_tasks calls the process has still to make
    pout,       \* SpecSteps: what the process printed
    nloads,     \* SpecSteps: load_tasks calls made by the current invocation
    nsaves,     \* SpecSteps: save_tasks calls made by the current invocation
    lastSaver,  \* SpecSteps: process that wrote tasks.json last (0: none)
    heap,       \* SpecRes: value of each Resource object, by address
    resource1,  \* SpecRes: address bound to the first result (0: none)
    resource2,  \* SpecRes: address bound to the second result (0: none)
    op          \* SpecRes: the last operation performed

cliVars   == <<file, pre, inv, out, writes>>
stepVars  == <<pc, pargs, base, mem, pending, pout, nloads, nsaves, lastSaver>>
resVars   == <<heap, resource1, resource2, op>>
vars      == <<file, pre, inv, out, writes, pc, pargs, base, mem, pending, pout,
               nloads, nsaves, lastSaver, heap, resource1, resource2, op>>

(***************************************************************************)
(* Bounds                                                                  *)
(***************************************************************************)
MaxTasks == 2
MaxObjs == 4
MaxVal == 2

Procs == {1, 2}

(***************************************************************************)
(* Optional values: None is the empty sequence, a value x is <<x>>.        *)
(***************************************************************************)
None == <<>>
Some(x) == <<x>>
Val(o) == o[1]
Opt(S) == {None} \cup {Some(x) : x \in S}

\* Python truthiness of an Optional[str] and of an Optional[int]
TruthyStr(o) == o # None /\ Val(o) # ""
TruthyInt(o) == o # None /\ Val(o) # 0

Last(s) == s[Len(s)]

(***************************************************************************)
(* Inputs                                                                  *)
(***************************************************************************)
Descs == {"", "write spec", "b"}
Ests == {-1, 0, 3, 5}
Ids == (-1)..(MaxTasks + 1)

Args(c, d, e, i) == [command |-> c, description |-> d, estimate |-> e, id |-> i]

AddInvocations ==
    {Args("add", d, e, i) : d \in Opt(Descs), e \in Opt(Ests), i \in {None, Some(1)}}
ListInvocations == {Args("list", None, None, None)}
ViewInvocations == {Args("view", None, None, i) : i \in Opt(Ids)}
EditInvocations ==
    {Args("edit", d, e, i) : d \in Opt(Descs), e \in Opt(Ests), i \in Opt(Ids)}
OtherInvocations == {Args("delete", None, None, Some(1))}

\* the invocations the two concurrent processes choose from
StepInvocations ==
    { Args("add", Some("write spec"), Some(3), None),
      Args("add", Some("b"), None, None),
      Args("edit", None, Some(5), Some(1)),
      Args("list", None, None, None) }

(***************************************************************************)
(* The store                                                               *)
(***************************************************************************)
Absent == [kind |-> "absent", tasks |-> <<>>, next_id |-> 0]
Garbage == [kind |-> "garbage", tasks |-> <<>>, next_id |-> 0]

Task(i, d, e) == [id |-> i, description |-> d, estimate |-> e]

\* load_tasks: ok is FALSE when json.load raises
load_tasks(f) ==
    IF f.kind = "absent" THEN [ok |-> TRUE, tasks |-> <<>>, next_id |-> 1]
    ELSE IF f.kind = "garbage" THEN [ok |-> FALSE, tasks |-> <<>>, next_id |-> 0]
    ELSE [ok |-> TRUE, tasks |-> f.tasks, next_id |-> f.next_id]

\* a bug: the file opened in append mode, so that a second document is
\* written after the one already there
save_tasks_append(tasks, next_id) ==
    IF file.kind = "absent"
    THEN [kind |-> "json", tasks |-> tasks, next_id |-> next_id]
    ELSE Garbage

\* save_tasks: the file's content after the call
save_tasks(tasks, next_id) ==
    [kind |-> "json", tasks |-> tasks, next_id |-> next_id]

(***************************************************************************)
(* The command handler.  A handler's result is the (tasks, next_id) it     *)
(* leaves in memory, the save_tasks calls it makes, in order, and its       *)
(* output.                                                                 *)
(***************************************************************************)
SaveCall(tasks, next_id) == [tasks |-> tasks, next_id |-> next_id]
Out(m, t, is, ts) == [msg |-> m, text |-> t, ids |-> is, tasks |-> ts]
Result(tasks, next_id, saves, o) ==
    [tasks |-> tasks, next_id |-> next_id, saves |-> saves, out |-> o]

\* index of the first task with the given id, 0 when there is none
FindTask(tasks, id) ==
    LET S == {i \in 1..Len(tasks) : tasks[i].id = id}
    IN IF S = {} THEN 0 ELSE CHOOSE i \in S : \A j \in S : i <= j

\* a bug: the id is taken after the counter is incremented
cmd_add_id_after_increment(args, tasks, next_id) ==
    IF ~TruthyStr(args.description)
    THEN Result(tasks, next_id, <<>>, Out("description_required", "", <<>>, <<>>))
    ELSE IF args.estimate # None /\ Val(args.estimate) < 0
    THEN Result(tasks, next_id, <<>>, Out("negative_estimate", "", <<>>, <<>>))
    ELSE
        LET estimate == IF args.estimate # None THEN Val(args.estimate) ELSE 0
            task == Task(next_id + 1, Val(args.description), estimate)
            tasks1 == Append(tasks, task)
            saved == SaveCall(tasks1, next_id + 1)
        IN Result(tasks1, next_id + 1, <<saved, saved>>,
                  Out("added", task.description, <<task.id>>, <<task>>))

\* a bug: next_id is not incremented
cmd_add_no_increment(args, tasks, next_id) ==
    IF ~TruthyStr(args.description)
    THEN Result(tasks, next_id, <<>>, Out("description_required", "", <<>>, <<>>))
    ELSE IF args.estimate # None /\ Val(args.estimate) < 0
    THEN Result(tasks, next_id, <<>>, Out("negative_estimate", "", <<>>, <<>>))
    ELSE
        LET estimate == IF args.estimate # None THEN Val(args.estimate) ELSE 0
            task == Task(next_id, Val(args.description), estimate)
            tasks1 == Append(tasks, task)
            saved == SaveCall(tasks1, next_id)
        IN Result(tasks1, next_id, <<saved, saved>>,
                  Out("added", task.description, <<task.id>>, <<task>>))

\* a bug: the description is tested with "is None", so that "" passes
cmd_add_accepts_empty(args, tasks, next_id) ==
    IF args.description = None
    THEN Result(tasks, next_id, <<>>, Out("description_required", "", <<>>, <<>>))
    ELSE IF args.estimate # None /\ Val(args.estimate) < 0
    THEN Result(tasks, next_id, <<>>, Out("negative_estimate", "", <<>>, <<>>))
    ELSE
        LET estimate == IF args.estimate # None THEN Val(args.estimate) ELSE 0
            task == Task(next_id, Val(args.description), estimate)
            tasks1 == Append(tasks, task)
            saved == SaveCall(tasks1, next_id + 1)
        IN Result(tasks1, next_id + 1, <<saved, saved>>,
                  Out("added", task.description, <<task.id>>, <<task>>))

\* main, command 'add': save_tasks is called twice, before and after print
cmd_add(args, tasks, next_id) ==
    IF ~TruthyStr(args.description)
    THEN Result(tasks, next_id, <<>>, Out("description_required", "", <<>>, <<>>))
    ELSE IF args.estimate # None /\ Val(args.estimate) < 0
    THEN Result(tasks, next_id, <<>>, Out("negative_estimate", "", <<>>, <<>>))
    ELSE
        LET estimate == IF args.estimate # None THEN Val(args.estimate) ELSE 0
            task == Task(next_id, Val(args.description), estimate)
            tasks1 == Append(tasks, task)
            saved == SaveCall(tasks1, next_id + 1)
        IN Result(tasks1, next_id + 1, <<saved, saved>>,
                  Out("added", task.description, <<task.id>>, <<task>>))

\* main, command 'list'
cmd_list(args, tasks, next_id) ==
    IF tasks = <<>>
    THEN Result(tasks, next_id, <<>>, Out("no_tasks", "", <<>>, <<>>))
    ELSE Result(tasks, next_id, <<>>, Out("tasks", "", <<>>, tasks))

\* main, command 'view'
cmd_view(args, tasks, next_id) ==
    IF ~TruthyInt(args.id)
    THEN Result(tasks, next_id, <<>>, Out("id_required", "view", <<>>, <<>>))
    ELSE
        LET i == FindTask(tasks, Val(args.id))
        IN IF i # 0
           THEN Result(tasks, next_id, <<>>, Out("view", "", <<>>, <<tasks[i]>>))
           ELSE Result(tasks, next_id, <<>>, Out("not_found", "", <<Val(args.id)>>, <<>>))

\* a bug: an estimate that is not supplied is stored as the default 0
cmd_edit_default_estimate(args, tasks, next_id) ==
    IF ~TruthyInt(args.id)
    THEN Result(tasks, next_id, <<>>, Out("id_required", "edit", <<>>, <<>>))
    ELSE
        LET i == FindTask(tasks, Val(args.id))
        IN IF i = 0
           THEN Result(tasks, next_id, <<>>, Out("not_found", "", <<Val(args.id)>>, <<>>))
           ELSE
             LET tasks1 == IF TruthyStr(args.description)
                           THEN [tasks EXCEPT ![i].description = Val(args.description)]
                           ELSE tasks
             IN IF args.estimate # None /\ Val(args.estimate) < 0
                THEN Result(tasks1, next_id, <<>>, Out("negative_estimate", "", <<>>, <<>>))
                ELSE
                  LET tasks2 == [tasks1 EXCEPT ![i].estimate =
                                    IF args.estimate # None THEN Val(args.estimate) ELSE 0]
                  IN Result(tasks2, next_id, <<SaveCall(tasks2, next_id)>>,
                            Out("updated", "", <<tasks2[i].id>>, <<>>))

\* a bug: the negative estimate is reported without returning, so that the
\* save below it still runs
cmd_edit_no_return(args, tasks, next_id) ==
    IF ~TruthyInt(args.id)
    THEN Result(tasks, next_id, <<>>, Out("id_required", "edit", <<>>, <<>>))
    ELSE
        LET i == FindTask(tasks, Val(args.id))
        IN IF i = 0
           THEN Result(tasks, next_id, <<>>, Out("not_found", "", <<Val(args.id)>>, <<>>))
           ELSE
             LET tasks1 == IF TruthyStr(args.description)
                           THEN [tasks EXCEPT ![i].description = Val(args.description)]
                           ELSE tasks
             IN IF args.estimate # None /\ Val(args.estimate) < 0
                THEN Result(tasks1, next_id, <<SaveCall(tasks1, next_id)>>,
                            Out("negative_estimate", "", <<>>, <<>>))
                ELSE
                  LET tasks2 == IF args.estimate # None
                                THEN [tasks1 EXCEPT ![i].estimate = Val(args.estimate)]
                                ELSE tasks1
                  IN Result(tasks2, next_id, <<SaveCall(tasks2, next_id)>>,
                            Out("updated", "", <<tasks2[i].id>>, <<>>))

\* main, command 'edit': found_task aliases the element of tasks, so the
\* description is already changed in memory when the estimate is checked
cmd_edit(args, tasks, next_id) ==
    IF ~TruthyInt(args.id)
    THEN Result(tasks, next_id, <<>>, Out("id_required", "edit", <<>>, <<>>))
    ELSE
        LET i == FindTask(tasks, Val(args.id))
        IN IF i = 0
           THEN Result(tasks, next_id, <<>>, Out("not_found", "", <<Val(args.id)>>, <<>>))
           ELSE
             LET tasks1 == IF TruthyStr(args.description)
                           THEN [tasks EXCEPT ![i].description = Val(args.description)]
                           ELSE tasks
             IN IF args.estimate # None /\ Val(args.estimate) < 0
                THEN Result(tasks1, next_id, <<>>, Out("negative_estimate", "", <<>>, <<>>))
                ELSE
                  LET tasks2 == IF args.estimate # None
                                THEN [tasks1 EXCEPT ![i].estimate = Val(args.estimate)]
                                ELSE tasks1
                  IN Result(tasks2, next_id, <<SaveCall(tasks2, next_id)>>,
                            Out("updated", "", <<tasks2[i].id>>, <<>>))

\* main, the final else
cmd_unknown(args, tasks, next_id) ==
    Result(tasks, next_id, <<>>, Out("unknown_command", args.command, <<>>, <<>>))

\* main: load_tasks, then the dispatch on args.command.  An exception of
\* load_tasks is caught nowhere: the process ends with a traceback.
main(args, f) ==
    LET l == load_tasks(f)
    IN IF ~l.ok
       THEN Result(<<>>, 0, <<>>, Out("traceback", "JSONDecodeError", <<>>, <<>>))
       ELSE IF args.command = "add" THEN cmd_add(args, l.tasks, l.next_id)
       ELSE IF args.command = "list" THEN cmd_list(args, l.tasks, l.next_id)
       ELSE IF args.command = "view" THEN cmd_view(args, l.tasks, l.next_id)
       ELSE IF args.command = "edit" THEN cmd_edit(args, l.tasks, l.next_id)
       ELSE cmd_unknown(args, l.tasks, l.next_id)

\* no more than MaxTasks tasks are ever stored
WithinBound(r) == Len(r.tasks) <= MaxTasks

(***************************************************************************)
(* Initial state                                                           *)
(***************************************************************************)
NoArgs == Args("", None, None, None)
NoOut == Out("", "", <<>>, <<>>)
NoDoc == [tasks |-> <<>>, next_id |-> 0]

InitCli ==
    /\ file = Absent
    /\ pre = Absent
    /\ inv = NoArgs
    /\ out = NoOut
    /\ writes = 0

InitSteps ==
    /\ pc = [p \in Procs |-> "idle"]
    /\ pargs = [p \in Procs |-> NoArgs]
    /\ base = [p \in Procs |-> NoDoc]
    /\ mem = [p \in Procs |-> NoDoc]
    /\ pending = [p \in Procs |-> <<>>]
    /\ pout = [p \in Procs |-> NoOut]
    /\ nloads = [p \in Procs |-> 0]
    /\ nsaves = [p \in Procs |-> 0]
    /\ lastSaver = 0

InitRes ==
    /\ heap = <<>>
    /\ resource1 = 0
    /\ resource2 = 0
    /\ op = "init"

Init == InitCli /\ InitSteps /\ InitRes

(***************************************************************************)
(* Spec: one invocation of the program, from load_tasks to its return      *)
(***************************************************************************)
Invoke(args) ==
    \E r \in {main(args, file)} :
       /\ WithinBound(r)
       /\ pre' = file
       /\ out' = r.out
       /\ writes' = Len(r.saves)
       /\ file' = IF r.saves = <<>>
                  THEN file
                  ELSE save_tasks(Last(r.saves).tasks, Last(r.saves).next_id)
       /\ UNCHANGED <<stepVars, resVars>>

Add ==
    \E a \in AddInvocations : inv' = a /\ Invoke(a)

List ==
    \E a \in ListInvocations : inv' = a /\ Invoke(a)

View ==
    \E a \in ViewInvocations : inv' = a /\ Invoke(a)

Edit ==
    \E a \in EditInvocations : inv' = a /\ Invoke(a)

Unknown ==
    \E a \in OtherInvocations : inv' = a /\ Invoke(a)

Next == Add \/ List \/ View \/ Edit \/ Unknown

Spec == Init /\ [][Next]_vars

(***************************************************************************)
(* SpecExt: something other than the program writes or removes tasks.json  *)
(***************************************************************************)
Clobber ==
    /\ file.kind # "garbage"
    /\ file' = Garbage
    /\ pre' = file
    /\ inv' = NoArgs
    /\ out' = NoOut
    /\ writes' = 0
    /\ UNCHANGED <<stepVars, resVars>>

Remove ==
    /\ file.kind # "absent"
    /\ file' = Absent
    /\ pre' = file
    /\ inv' = NoArgs
    /\ out' = NoOut
    /\ writes' = 0
    /\ UNCHANGED <<stepVars, resVars>>

NextExt == Add \/ List \/ View \/ Edit \/ Unknown \/ Clobber \/ Remove

SpecExt == Init /\ [][NextExt]_vars

(***************************************************************************)
(* SpecSteps: two processes; load_tasks and each save_tasks are steps      *)
(***************************************************************************)
Start(p) ==
    /\ pc[p] \in {"idle", "done"}
    /\ \E a \in StepInvocations : pargs' = [pargs EXCEPT ![p] = a]
    /\ pc' = [pc EXCEPT ![p] = "started"]
    /\ base' = [base EXCEPT ![p] = NoDoc]
    /\ mem' = [mem EXCEPT ![p] = NoDoc]
    /\ pending' = [pending EXCEPT ![p] = <<>>]
    /\ pout' = [pout EXCEPT ![p] = NoOut]
    /\ nloads' = [nloads EXCEPT ![p] = 0]
    /\ nsaves' = [nsaves EXCEPT ![p] = 0]
    /\ UNCHANGED <<cliVars, lastSaver, resVars>>

\* line 28 and the handler up to its first save_tasks call (or its return)
Load(p) ==
    /\ pc[p] = "started"
    /\ LET l == load_tasks(file)
           r == main(pargs[p], file)
       IN /\ WithinBound(r)
          /\ base' = [base EXCEPT ![p] = [tasks |-> l.tasks, next_id |-> l.next_id]]
          /\ mem' = [mem EXCEPT ![p] = [tasks |-> r.tasks, next_id |-> r.next_id]]
          /\ pending' = [pending EXCEPT ![p] = r.saves]
          /\ pout' = [pout EXCEPT ![p] = r.out]
    /\ nloads' = [nloads EXCEPT ![p] = @ + 1]
    /\ pc' = [pc EXCEPT ![p] = "running"]
    /\ UNCHANGED <<cliVars, pargs, nsaves, lastSaver, resVars>>

\* one save_tasks call
Save(p) ==
    /\ pc[p] = "running"
    /\ pending[p] # <<>>
    /\ file' = save_tasks(Head(pending[p]).tasks, Head(pending[p]).next_id)
    /\ pending' = [pending EXCEPT ![p] = Tail(@)]
    /\ nsaves' = [nsaves EXCEPT ![p] = @ + 1]
    /\ lastSaver' = p
    /\ UNCHANGED <<pre, inv, out, writes, pc, pargs, base, mem, pout, nloads, resVars>>

\* the process returns from main
Exit(p) ==
    /\ pc[p] = "running"
    /\ pending[p] = <<>>
    /\ pc' = [pc EXCEPT ![p] = "done"]
    /\ UNCHANGED <<cliVars, pargs, base, mem, pending, pout, nloads, nsaves,
                   lastSaver, resVars>>

NextSteps == \E p \in Procs : Start(p) \/ Load(p) \/ Save(p) \/ Exit(p)

SpecSteps == Init /\ [][NextSteps]_vars

(***************************************************************************)
(* SpecRes: idempotent_function.py.  A Resource is an address into heap;   *)
(* heap[a] is its value attribute.                                         *)
(***************************************************************************)
Vals == 0..MaxVal

\* Resource.__eq__ between two Resource objects
Resource_eq(h, a, b) == h[a] = h[b]

\* Resource defines no __ne__: Python's default inverts __eq__
Resource_ne(h, a, b) == ~Resource_eq(h, a, b)

\* create_resource: the heap after the call and the address returned
create_resource(h, initial_value) ==
    [heap |-> Append(h, initial_value), ret |-> Len(h) + 1]

\* ensure_resource_exists (a Resource object is always truthy; 0 is None)
ensure_resource_exists(h, initial_value, current_resource) ==
    IF current_resource # 0 /\ h[current_resource] = initial_value
    THEN [heap |-> h, ret |-> current_resource]
    ELSE [heap |-> Append(h, initial_value), ret |-> Len(h) + 1]

\* increment_resource_value
increment_resource_value(h, resource) ==
    [heap |-> [h EXCEPT ![resource] = @ + 1], ret |-> resource]

\* set_resource_value
set_resource_value(h, resource, new_value) ==
    [heap |-> [h EXCEPT ![resource] = new_value], ret |-> resource]

\* resource1 = create_resource(v); resource2 = create_resource(v)
CreateTwice ==
    /\ Len(heap) + 2 <= MaxObjs
    /\ \E v \in Vals :
         LET c1 == create_resource(heap, v)
             c2 == create_resource(c1.heap, v)
         IN /\ heap' = c2.heap
            /\ resource1' = c1.ret
            /\ resource2' = c2.ret
    /\ op' = "create_twice"
    /\ UNCHANGED <<cliVars, stepVars>>

\* resource2 = ensure_resource_exists(v, current_resource=resource1)
Ensure ==
    /\ Len(heap) + 1 <= MaxObjs
    /\ \E v \in Vals :
         LET e == ensure_resource_exists(heap, v, resource1)
         IN /\ heap' = e.heap
            /\ resource2' = e.ret
    /\ op' = "ensure"
    /\ UNCHANGED <<cliVars, stepVars, resource1>>

Increment ==
    /\ \E a \in 1..Len(heap) :
         /\ heap[a] < MaxVal
         /\ heap' = increment_resource_value(heap, a).heap
         /\ resource1' = a
    /\ op' = "increment"
    /\ UNCHANGED <<cliVars, stepVars, resource2>>

SetValue ==
    /\ \E a \in 1..Len(heap) : \E v \in Vals :
         /\ heap' = set_resource_value(heap, a, v).heap
         /\ resource1' = a
    /\ op' = "set"
    /\ UNCHANGED <<cliVars, stepVars, resource2>>

NextRes == CreateTwice \/ Ensure \/ Increment \/ SetValue

SpecRes == Init /\ [][NextRes]_vars

(***************************************************************************)
(* Properties                                                              *)
(***************************************************************************)
\* the document an invocation starting now / the last invocation loaded
NowDoc == load_tasks(file)
PreDoc == load_tasks(pre)

HasId(tasks, id) == \E i \in 1..Len(tasks) : tasks[i].id = id

\* C1: an add with a non-empty description and a non-negative (or no)
\* estimate leaves the prior document with exactly one task appended, whose
\* id is the prior next_id and whose fields are the inputs (estimate 0 when
\* none is given), and next_id one greater; from the empty store,
\* add("write spec", 3) leaves task {1, "write spec", 3} and next_id 2.
C1_AddAppendsTask ==
    /\ ( /\ inv.command = "add"
         /\ inv.description # None /\ Val(inv.description) # ""
         /\ (inv.estimate = None \/ Val(inv.estimate) >= 0) )
       => /\ file.kind = "json"
          /\ file.tasks = Append(PreDoc.tasks,
                [id |-> PreDoc.next_id,
                 description |-> Val(inv.description),
                 estimate |-> IF inv.estimate = None THEN 0 ELSE Val(inv.estimate)])
          /\ file.next_id = PreDoc.next_id + 1
    /\ ( /\ pre.kind = "absent"
         /\ inv.command = "add"
         /\ inv.description = Some("write spec")
         /\ inv.estimate = Some(3) )
       => /\ file.tasks = <<[id |-> 1, description |-> "write spec", estimate |-> 3]>>
          /\ file.next_id = 2

C1_Witness ==
    /\ pre.kind = "absent"
    /\ inv = Args("add", Some("write spec"), Some(3), None)
    /\ out.msg = "added"
    /\ file.next_id = 2

\* C2: starting from no file, after any sequence of invocations next_id is
\* greater than every task id, the ids are positive and pairwise distinct,
\* and next_id is not smaller than before the last invocation.
C2_NextIdAboveIds ==
    /\ \A i \in 1..Len(NowDoc.tasks) :
          /\ NowDoc.tasks[i].id < NowDoc.next_id
          /\ NowDoc.tasks[i].id > 0
    /\ \A i, j \in 1..Len(NowDoc.tasks) :
          i # j => NowDoc.tasks[i].id # NowDoc.tasks[j].id
    /\ PreDoc.next_id <= NowDoc.next_id

C2_Witness ==
    /\ Len(NowDoc.tasks) = 2
    /\ inv.command = "add"
    /\ out.msg = "added"
    /\ NowDoc.next_id = 3

\* C3: an add with a missing or empty description, or a negative estimate,
\* reports a validation error, makes no save and leaves the persisted
\* document as it was.
C3_InvalidAddRejected ==
    ( /\ inv.command = "add"
      /\ \/ inv.description = None
         \/ Val(inv.description) = ""
         \/ (inv.estimate # None /\ Val(inv.estimate) < 0) )
    => /\ out.msg \in {"description_required", "negative_estimate"}
       /\ writes = 0
       /\ file = pre

C3_Witness ==
    /\ inv = Args("add", Some(""), Some(3), None)
    /\ out.msg = "description_required"
    /\ Len(PreDoc.tasks) = 1

\* C4: a view or edit with an id that no task has (0 and negative ids
\* included) reports that id as not found and leaves the document unchanged.
C4_AbsentIdNotFound ==
    ( /\ inv.command \in {"view", "edit"}
      /\ inv.id # None
      /\ ~HasId(PreDoc.tasks, Val(inv.id)) )
    => /\ out.msg = "not_found"
       /\ out.ids = <<Val(inv.id)>>
       /\ file = pre

\* C5: a successful edit changes only the fields supplied: an estimate or a
\* description that is not supplied keeps its value, and the task's id,
\* every other task, the order and next_id are unchanged; after
\* add("write spec", 3), edit(id=1, estimate=5) leaves {1, "write spec", 5}.
C5_EditChangesOnlySupplied ==
    /\ (inv.command = "edit" /\ out.msg = "updated")
       => /\ file.kind = "json"
          /\ Len(file.tasks) = Len(PreDoc.tasks)
          /\ file.next_id = PreDoc.next_id
          /\ \A j \in 1..Len(PreDoc.tasks) :
               /\ file.tasks[j].id = PreDoc.tasks[j].id
               /\ file.tasks[j].id # Val(inv.id) => file.tasks[j] = PreDoc.tasks[j]
               /\ inv.estimate = None
                    => file.tasks[j].estimate = PreDoc.tasks[j].estimate
               /\ inv.description = None
                    => file.tasks[j].description = PreDoc.tasks[j].description
               /\ (file.tasks[j].id = Val(inv.id) /\ inv.estimate # None)
                    => file.tasks[j].estimate = Val(inv.estimate)
    /\ ( /\ PreDoc.tasks = <<[id |-> 1, description |-> "write spec", estimate |-> 3]>>
         /\ inv = Args("edit", None, Some(5), Some(1)) )
       => file.tasks = <<[id |-> 1, description |-> "write spec", estimate |-> 5]>>

C5_Witness ==
    /\ PreDoc.tasks = <<[id |-> 1, description |-> "write spec", estimate |-> 3]>>
    /\ inv = Args("edit", None, Some(5), Some(1))
    /\ out.msg = "updated"
    /\ file.tasks[1].estimate = 5

\* C6: every invocation makes at most one load and at most one save, and
\* the load comes before the save.
C6_OneLoadOneSave ==
    \A p \in Procs :
        /\ nloads[p] <= 1
        /\ nsaves[p] <= 1
        /\ nsaves[p] > 0 => nloads[p] > 0

\* C7: with a tasks.json that is not valid JSON, every invocation reports a
\* data-corruption message instead of ending with an unhandled exception,
\* and the file is not modified.
C7_CorruptionReported ==
    (inv.command # "" /\ pre.kind = "garbage")
    => /\ out.msg # "traceback"
       /\ out.msg = "data_corruption"
       /\ file = pre

\* C8: when two add invocations have both loaded the same document and
\* both have returned, both were given the same id and the file holds the
\* loaded document plus only the task of the one that saved last.
C8_LastWriteWins ==
    \A p, q \in Procs :
        ( /\ p # q
          /\ pc[p] = "done" /\ pc[q] = "done"
          /\ pout[p].msg = "added" /\ pout[q].msg = "added"
          /\ base[p] = base[q]
          /\ lastSaver = p )
        => /\ pout[p].ids = pout[q].ids
           /\ pout[p].ids = <<base[p].next_id>>
           /\ file.kind = "json"
           /\ file.tasks = Append(base[p].tasks, pout[p].tasks[1])
           /\ file.next_id = base[p].next_id + 1

C8_Witness ==
    /\ pc[1] = "done" /\ pc[2] = "done"
    /\ pargs[1] = Args("add", Some("write spec"), Some(3), None)
    /\ pargs[2] = Args("add", Some("b"), None, None)
    /\ pout[1].msg = "added" /\ pout[2].msg = "added"
    /\ base[1] = base[2]
    /\ lastSaver = 2
    /\ Len(file.tasks) = Len(base[1].tasks) + 1
    /\ \A i \in 1..Len(file.tasks) : file.tasks[i].description # "write spec"

\* C9: two calls create_resource(v) return distinct resources that compare
\* unequal (resource1 != resource2) and whose values are equal.
C9_CreatedCompareUnequal ==
    op = "create_twice"
    => /\ resource1 # resource2
       /\ Resource_ne(heap, resource1, resource2)
       /\ heap[resource1] = heap[resource2]

\* C10: an edit of an existing task with a negative estimate reports the
\* validation error, makes no save and leaves the persisted document as it
\* was, also when a new non-empty description comes with it.
C10_NegativeEditNotSaved ==
    ( /\ inv.command = "edit"
      /\ inv.id # None
      /\ HasId(PreDoc.tasks, Val(inv.id))
      /\ inv.estimate # None
      /\ Val(inv.estimate) < 0 )
    => /\ out.msg = "negative_estimate"
       /\ writes = 0
       /\ file = pre

C10_Witness ==
    /\ inv = Args("edit", Some("b"), Some(-1), Some(1))
    /\ PreDoc.tasks = <<[id |-> 1, description |-> "write spec", estimate |-> 3]>>
    /\ out.msg = "negative_estimate"
    /\ file.tasks[1].description = "write spec"

=============================================================================
